---- MODULE Spec2Model ----
(***************************************************************************)
(* Model of process_srt.py: the frame increment calculation, the telemetry *)
(* (.srt) reader, the image export loop and the degrees/minutes/seconds    *)
(* conversion.                                                             *)
(*                                                                         *)
(* Numbers.  Coordinates, altitudes and focal lengths are fixed-point      *)
(* integers in units of 1/Scale; seconds and frame rates are rationals     *)
(* <<numerator, denominator>>.  float(text) is the reading of such a       *)
(* number from its decimal text.                                           *)
(*                                                                         *)
(* A line of the log is a record [kind, text]: text is the sequence of     *)
(* <<key, value>> matches that re.findall finds in the line, in line       *)
(* order; kind names the role of the line in the layout of the log and is  *)
(* never read by the program.                                              *)
(***************************************************************************)
EXTENDS Integers, Sequences, FiniteSets, TLC

VARIABLES
    seconds,          \* main: inc_seconds, a rational
    framerate,        \* what cap.get(CAP_PROP_FPS) reports, a rational
    file,             \* the telemetry log: a sequence of lines
    pc,               \* position of the run
    err,              \* the exception that ended the run, "none" if none
    frame_increment,  \* main: frame_increment / get_meta_info: inc_frames
    pos,              \* get_meta_info: number of lines consumed from file
    count,            \* get_meta_info: count
    result,           \* get_meta_info: result
    parsed,           \* history: <<count, line number>> of each line given to read_line_attributes
    cur,              \* save_images: index in frames of the sample being exported
    exif_image,       \* save_images: exif_image of the current sample, <<>> if none
    files,            \* the output directory: frame_num -> file
    d,                \* decimal_degrees_to_minutes_seconds: decimal
    dms               \* its return value, <<>> before the call

vars == <<seconds, framerate, file, pc, err, frame_increment, pos, count,
          result, parsed, cur, exif_image, files, d, dms>>

-----------------------------------------------------------------------------
(* Bounds *)

MaxBlocks == 2

Scale == 1000

MaxD == 2500

-----------------------------------------------------------------------------
(* Helpers *)

Abs(x) == IF x < 0 THEN -x ELSE x

Max2(a, b) == IF a >= b THEN a ELSE b

Min2(a, b) == IF a <= b THEN a ELSE b

SetMax(S) == CHOOSE x \in S : \A y \in S : y <= x

\* Python int(): truncation toward zero of num/den, den > 0
IntTrunc(num, den) == IF num >= 0 THEN num \div den ELSE -((-num) \div den)

\* floor of num/den, den > 0
Floor(num, den) == num \div den

\* Python a % b for b # 0: the result has the sign of b
PyMod(a, b) == IF b > 0 THEN a % b ELSE -((-a) % (-b))

-----------------------------------------------------------------------------
(* Inputs *)

Seconds == { <<-1, 1>>, <<0, 1>>, <<1, 2>>, <<1, 1>> }

FrameRates == { <<0, 1>>, <<1, 1>>, <<5, 2>> }

RequiredKeys == {"latitude", "longitude", "abs_alt", "focal_len"}

AttrText(la, lo, al, fl) ==
    << <<"latitude", la>>, <<"longitude", lo>>, <<"abs_alt", al>>, <<"focal_len", fl>> >>

RemoveAt(s, i) == SubSeq(s, 1, i - 1) \o SubSeq(s, i + 1, Len(s))

ValidText == AttrText(45 * Scale, 9 * Scale, 100 * Scale, 24 * Scale)

SouthText == AttrText(-1 * Scale, 0, -5 * Scale, 24 * Scale)

WestText == AttrText(0, -1 * Scale, 0, 24 * Scale)

SentinelText == AttrText(0, 0, 100 * Scale, 24 * Scale)

FullTexts == {ValidText, SouthText, WestText, SentinelText}

\* attribute lines in which a key is absent, and one that repeats a key
LackingTexts ==
    { RemoveAt(ValidText, 1), RemoveAt(ValidText, 2), RemoveAt(WestText, 2),
      RemoveAt(SentinelText, 3), RemoveAt(ValidText, 4),
      <<<<"latitude", 0>>>> \o ValidText }

AttrTexts == FullTexts \cup LackingTexts

\* an attribute line cut short by the end of the file
CutTexts == { SubSeq(t, 1, n) : t \in {ValidText, SentinelText}, n \in 0..3 }

Line(k, t) == [kind |-> k, text |-> t]

Prefix4 == << Line("ordinal", <<>>), Line("time", <<>>), Line("count", <<>>), Line("date", <<>>) >>

\* one frame of the documented layout
Block(t) == Prefix4 \o << Line("attr", t), Line("blank", <<>>) >>

HeaderBlock == << Line("header", <<>>), Line("header", <<>>), Line("header", <<>>), Line("header", <<>>) >>

RECURSIVE Logs(_)
\* the logs of exactly n complete frames
Logs(n) == IF n = 0 THEN { <<>> }
           ELSE { l \o Block(t) : l \in Logs(n - 1), t \in AttrTexts }

\* a trailing frame cut at a line boundary or inside its attribute line
Tails == { SubSeq(Prefix4, 1, n) : n \in 0..4 }
         \cup { Prefix4 \o << Line("attr", t) >> : t \in FullTexts \cup CutTexts }

InputLogs ==
    UNION { Logs(n) : n \in 0..MaxBlocks }
    \cup UNION { { l \o t : l \in Logs(n), t \in Tails \ { <<>> } } : n \in 0..(MaxBlocks - 1) }
    \cup UNION { { HeaderBlock \o l : l \in Logs(n) } : n \in 0..MaxBlocks }

-----------------------------------------------------------------------------
(* The program *)

NoFiles == [n \in {} |-> 0]

\* get_meta_info: the four file.readline() calls before the loop
HeaderLines == 4

\* get_meta_info: the five file.readline() calls that end an iteration
TrailingLines == 5

Init ==
    /\ seconds \in Seconds
    /\ framerate \in FrameRates
    /\ file \in InputLogs
    /\ pc = "main"
    /\ err = "none"
    /\ frame_increment = 0
    /\ pos = 0
    /\ count = 0
    /\ result = <<>>
    /\ parsed = <<>>
    /\ cur = 0
    /\ exif_image = <<>>
    /\ files = NoFiles
    /\ d = 0
    /\ dms = <<>>

\* int(framerate * seconds)
calculate_frame_increment(secs, rate) ==
    IntTrunc(rate[1] * secs[1], rate[2] * secs[2])

\* main, line 30
CalcFrameIncrement ==
    /\ pc = "main"
    /\ frame_increment' = calculate_frame_increment(seconds, framerate)
    /\ pc' = "open"
    /\ UNCHANGED <<seconds, framerate, file, err, pos, count, result, parsed,
                   cur, exif_image, files, d, dms>>

\* faulty variant: the end of the file is seen one line early
AtEOF_Early(p) == p + 1 >= Len(file)

\* file.readline() returns '' at the end of the file
AtEOF(p) == p >= Len(file)

\* faulty variant: one readline too many
Skip_Extra(p, n) == Min2(p + n + 1, Len(file))

\* the position after n more file.readline() calls
Skip(p, n) == Min2(p + n, Len(file))

\* the dictionary built from the matches of a line: the last match of a key wins
read_line_attributes(line) ==
    LET t == line.text
    IN  [k \in { t[i][1] : i \in DOMAIN t } |->
            t[SetMax({ i \in DOMAIN t : t[i][1] = k })][2]]

ImageData(attrs, n) ==
    [lat |-> attrs["latitude"], long |-> attrs["longitude"],
     abs_alt |-> attrs["abs_alt"], focal_len |-> attrs["focal_len"],
     frame_num |-> n]

\* faulty variant: both coordinates must be non-zero ("and" for "or")
BlockOutcome_And(attrs, cnt, inc) ==
    IF inc = 0 THEN "ZeroDivisionError"
    ELSE IF PyMod(cnt, inc) # 0 THEN "skip"
    ELSE IF "latitude" \notin DOMAIN attrs THEN "KeyError"
    ELSE IF attrs["latitude"] = 0 THEN "skip"
    ELSE IF "longitude" \notin DOMAIN attrs THEN "KeyError"
    ELSE IF attrs["longitude"] = 0 THEN "skip"
    ELSE IF RequiredKeys \subseteq DOMAIN attrs THEN "append"
    ELSE "KeyError"

\* faulty variant: the four keys are looked up before the test
BlockOutcome_Eager(attrs, cnt, inc) ==
    IF ~(RequiredKeys \subseteq DOMAIN attrs) THEN "KeyError"
    ELSE IF inc = 0 THEN "ZeroDivisionError"
    ELSE IF PyMod(cnt, inc) # 0 THEN "skip"
    ELSE IF attrs["latitude"] = 0 /\ attrs["longitude"] = 0 THEN "skip"
    ELSE "append"

\* the if statement of get_meta_info, in Python's evaluation order: the
\* modulus first, then attrs['latitude'], attrs['longitude'] only when the
\* latitude is 0.0, and the four lookups of ImageData(...) when the test holds
BlockOutcome(attrs, cnt, inc) ==
    IF inc = 0 THEN "ZeroDivisionError"
    ELSE IF PyMod(cnt, inc) # 0 THEN "skip"
    ELSE IF "latitude" \notin DOMAIN attrs THEN "KeyError"
    ELSE IF attrs["latitude"] = 0 /\ "longitude" \notin DOMAIN attrs THEN "KeyError"
    ELSE IF attrs["latitude"] = 0 /\ attrs["longitude"] = 0 THEN "skip"
    ELSE IF RequiredKeys \subseteq DOMAIN attrs THEN "append"
    ELSE "KeyError"

\* get_meta_info, lines 63-70
OpenAndSkipHeader ==
    /\ pc = "open"
    /\ result' = <<>>
    /\ count' = 0
    /\ pos' = Skip(0, HeaderLines)
    /\ pc' = "loop"
    /\ UNCHANGED <<seconds, framerate, file, err, frame_increment, parsed,
                   cur, exif_image, files, d, dms>>

\* get_meta_info, lines 72-74 and 99; main then calls save_images
EndOfLog ==
    /\ pc = "loop"
    /\ AtEOF(pos)
    /\ pc' = "decode"
    /\ cur' = 1
    /\ UNCHANGED <<seconds, framerate, file, err, frame_increment, pos, count,
                   result, parsed, exif_image, files, d, dms>>

\* get_meta_info, lines 72-98: one iteration of the loop
ReadBlock ==
    /\ pc = "loop"
    /\ ~AtEOF(pos)
    /\ LET next_line == file[pos + 1]
           attrs == read_line_attributes(next_line)
           out == BlockOutcome(attrs, count, frame_increment)
       IN  /\ parsed' = Append(parsed, <<count, pos + 1>>)
           /\ IF out \in {"KeyError", "ZeroDivisionError"}
              THEN /\ pc' = "error"
                   /\ err' = out
                   /\ pos' = Skip(pos, 1)
                   /\ UNCHANGED <<count, result>>
              ELSE /\ result' = IF out = "append"
                                THEN Append(result, ImageData(attrs, count))
                                ELSE result
                   /\ count' = count + 1
                   /\ pos' = Skip(Skip(pos, 1), TrailingLines)
                   /\ UNCHANGED <<pc, err>>
    /\ UNCHANGED <<seconds, framerate, file, frame_increment, cur, exif_image,
                   files, d, dms>>

\* faulty variant: abs() forgotten
decimal_degrees_to_minutes_seconds_Signed(decimal) ==
    LET total == decimal * 3600
        mnt0 == total \div (60 * Scale)
        sec == total % (60 * Scale)
        deg == mnt0 \div 60
        mnt == mnt0 % 60
    IN  <<deg, mnt, sec>>

\* (degrees, minutes, seconds) of |decimal|; seconds in units of 1/Scale
decimal_degrees_to_minutes_seconds(decimal) ==
    LET total == Abs(decimal) * 3600
        mnt0 == total \div (60 * Scale)
        sec == total % (60 * Scale)
        deg == mnt0 \div 60
        mnt == mnt0 % 60
    IN  <<deg, mnt, sec>>

\* faulty variant: >= for >
LatitudeRef_Ge(lat) == IF lat >= 0 THEN "N" ELSE "S"

LatitudeRef(lat) == IF lat > 0 THEN "N" ELSE "S"

LongitudeRef(long) == IF long > 0 THEN "E" ELSE "W"

AltitudeRef(abs_alt) == IF abs_alt > 0 THEN "ABOVE_SEA_LEVEL" ELSE "BELOW_SEA_LEVEL"

File(st, ex) == [state |-> st, exif |-> ex]

PutFile(fs, n, f) == [m \in (DOMAIN fs) \cup {n} |-> IF m = n THEN f ELSE fs[m]]

exportFrame == <<seconds, framerate, file, frame_increment, pos, count, result, parsed, d, dms>>

\* save_images, lines 138-147
ExifOf(frame) ==
    [gps_latitude |-> decimal_degrees_to_minutes_seconds(frame.lat),
     gps_latitude_ref |-> LatitudeRef(frame.lat),
     gps_longitude |-> decimal_degrees_to_minutes_seconds(frame.long),
     gps_longitude_ref |-> LongitudeRef(frame.long),
     gps_altitude |-> Abs(frame.abs_alt),
     gps_altitude_ref |-> AltitudeRef(frame.abs_alt),
     focal_length |-> frame.focal_len]


\* save_images, lines 125-127: the frame is read and converted
DecodeFrame ==
    /\ pc = "decode"
    /\ cur <= Len(result)
    /\ pc' = "save"
    /\ UNCHANGED <<err, cur, exif_image, files>>
    /\ UNCHANGED exportFrame

\* save_images, lines 125-127: cap.read() returns (False, None), which
\* cv2.cvtColor rejects with cv2.error; nothing catches it
DecodeFails ==
    /\ pc = "decode"
    /\ cur <= Len(result)
    /\ pc' = "error"
    /\ err' = "decode"
    /\ UNCHANGED <<cur, exif_image, files>>
    /\ UNCHANGED exportFrame

\* save_images, lines 130-131
SaveImage ==
    /\ pc = "save"
    /\ files' = PutFile(files, result[cur].frame_num, File("plain", <<>>))
    /\ pc' = "exif"
    /\ UNCHANGED <<err, cur, exif_image>>
    /\ UNCHANGED exportFrame

\* save_images, lines 130-131: image.save raises; the file is absent or incomplete
SaveImageFails ==
    /\ pc = "save"
    /\ \/ files' = files
       \/ files' = PutFile(files, result[cur].frame_num, File("partial", <<>>))
    /\ pc' = "error"
    /\ err' = "save"
    /\ UNCHANGED <<cur, exif_image>>
    /\ UNCHANGED exportFrame

\* save_images, lines 134-147
LoadExif ==
    /\ pc = "exif"
    /\ exif_image' = << ExifOf(result[cur]) >>
    /\ pc' = "rewrite"
    /\ UNCHANGED <<err, cur, files>>
    /\ UNCHANGED exportFrame

\* save_images, lines 134-147: opening or parsing the saved file raises
LoadExifFails ==
    /\ pc = "exif"
    /\ pc' = "error"
    /\ err' = "exif"
    /\ UNCHANGED <<cur, exif_image, files>>
    /\ UNCHANGED exportFrame

\* faulty variant: the loop goes on without the file being rewritten
WriteExif_NotWritten ==
    /\ pc = "rewrite"
    /\ exif_image' = <<>>
    /\ cur' = cur + 1
    /\ pc' = "decode"
    /\ UNCHANGED <<err, files>>
    /\ UNCHANGED exportFrame

\* save_images, lines 150-151, and the next iteration of the for loop
WriteExif ==
    /\ pc = "rewrite"
    /\ files' = PutFile(files, result[cur].frame_num, File("tagged", exif_image))
    /\ exif_image' = <<>>
    /\ cur' = cur + 1
    /\ pc' = "decode"
    /\ UNCHANGED err
    /\ UNCHANGED exportFrame

\* save_images, lines 150-151: open(..., 'wb') or write raises; the file is
\* as it was or truncated
WriteExifFails ==
    /\ pc = "rewrite"
    /\ \/ files' = files
       \/ files' = PutFile(files, result[cur].frame_num, File("partial", <<>>))
    /\ pc' = "error"
    /\ err' = "rewrite"
    /\ UNCHANGED <<cur, exif_image>>
    /\ UNCHANGED exportFrame

\* save_images, line 153
Release ==
    /\ pc = "decode"
    /\ cur > Len(result)
    /\ pc' = "done"
    /\ UNCHANGED <<err, cur, exif_image, files>>
    /\ UNCHANGED exportFrame

Next ==
    \/ CalcFrameIncrement
    \/ OpenAndSkipHeader
    \/ EndOfLog
    \/ ReadBlock
    \/ DecodeFrame
    \/ DecodeFails
    \/ SaveImage
    \/ SaveImageFails
    \/ LoadExif
    \/ LoadExifFails
    \/ WriteExif
    \/ WriteExifFails
    \/ Release

Spec == Init /\ [][Next]_vars

-----------------------------------------------------------------------------
(* The conversion alone, over a range of decimal degrees *)

InitDMS ==
    /\ seconds = <<1, 1>>
    /\ framerate = <<1, 1>>
    /\ file = <<>>
    /\ pc = "convert"
    /\ err = "none"
    /\ frame_increment = 0
    /\ pos = 0
    /\ count = 0
    /\ result = <<>>
    /\ parsed = <<>>
    /\ cur = 0
    /\ exif_image = <<>>
    /\ files = NoFiles
    /\ d \in (-MaxD)..MaxD
    /\ dms = <<>>

Convert ==
    /\ pc = "convert"
    /\ dms = <<>>
    /\ dms' = << decimal_degrees_to_minutes_seconds(d) >>
    /\ UNCHANGED <<d, seconds, framerate, file, pc, err, frame_increment, pos,
                   count, result, parsed, cur, exif_image, files>>

NextDMS == Convert

SpecDMS == InitDMS /\ [][NextDMS]_vars

-----------------------------------------------------------------------------
(* Vocabulary of the properties *)

\* the log starts with four lines that belong to no frame
HasHeader == Len(file) >= 1 /\ file[1].kind = "header"

\* line numbers (from 1) of the attribute lines of the log
AttrLineNos == { i \in DOMAIN file : file[i].kind = "attr" }

NumBlocks == Cardinality(AttrLineNos)

\* line number of the attribute line of block k (from 0), 0 if there is none
AttrLineNo(k) ==
    IF k \in 0..(NumBlocks - 1)
    THEN CHOOSE i \in AttrLineNos : Cardinality({ j \in AttrLineNos : j < i }) = k
    ELSE 0

AttrsOfBlock(k) == read_line_attributes(file[AttrLineNo(k)])

\* every frame of the log has its six lines
CompleteBlocks == Len(file) = (IF HasHeader THEN 4 ELSE 0) + 6 * NumBlocks

\* the last frame of the log stops before its attribute line
CutBeforeAttr == ~HasHeader /\ Len(file) > 6 * NumBlocks

\* the last frame of the log stops with its attribute line
CutAtAttr == ~HasHeader /\ Len(file) < 6 * NumBlocks

Keyed(k) == RequiredKeys \subseteq DOMAIN AttrsOfBlock(k)

AllKeyed == \A k \in 0..(NumBlocks - 1) : Keyed(k)

BothZero(k) == AttrsOfBlock(k)["latitude"] = 0 /\ AttrsOfBlock(k)["longitude"] = 0

\* block k is one the reader has to emit, for a positive increment
Qualifies(k) == k % frame_increment = 0 /\ ~BothZero(k)

Computed == pc \notin {"main"}

ReaderFailed == pc = "error" /\ err \in {"KeyError", "ZeroDivisionError"}

\* get_meta_info has returned its list
ReaderReturned == pc \in {"decode", "save", "exif", "rewrite", "done"}
                  \/ (pc = "error" /\ err \in {"decode", "save", "exif", "rewrite"})

FrameNums == { result[j].frame_num : j \in DOMAIN result }

Ascending == \A i, j \in DOMAIN result : i < j => result[i].frame_num < result[j].frame_num

\* result[j] carries the values of the block it is numbered after
FromItsBlock(j) ==
    LET k == result[j].frame_num
    IN  /\ k \in 0..(NumBlocks - 1)
        /\ Keyed(k)
        /\ result[j] = [lat |-> AttrsOfBlock(k)["latitude"],
                        long |-> AttrsOfBlock(k)["longitude"],
                        abs_alt |-> AttrsOfBlock(k)["abs_alt"],
                        focal_len |-> AttrsOfBlock(k)["focal_len"],
                        frame_num |-> k]

-----------------------------------------------------------------------------
(* C1 *)

-----------------------------------------------------------------------------
(* C2 *)

\* every line given to read_line_attributes so far is the attribute line of
\* the block numbered by the frame counter it was read with
FedAttrLines ==
    \A j \in DOMAIN parsed :
        /\ j <= NumBlocks
        /\ parsed[j] = <<j - 1, AttrLineNo(j - 1)>>

-----------------------------------------------------------------------------
(* C3 *)

\* the lookups Python performs for the line read with frame counter k hit a
\* key the line does not have
LookupFails(attrs, k) ==
    /\ frame_increment # 0
    /\ PyMod(k, frame_increment) = 0
    /\ \/ "latitude" \notin DOMAIN attrs
       \/ (attrs["latitude"] = 0 /\ "longitude" \notin DOMAIN attrs)
       \/ /\ ~(RequiredKeys \subseteq DOMAIN attrs)
          /\ ~("longitude" \in DOMAIN attrs /\ attrs["latitude"] = 0 /\ attrs["longitude"] = 0)

ExportStarted == cur >= 1

\* C3 as stated: if any block of the log lacks a required key, get_meta_info
\* returns nothing and the export never starts, whatever the block's frame
\* counter and the values of the keys it has.
C3_Claim ==
    (Computed /\ frame_increment > 0 /\ ~HasHeader /\ CompleteBlocks /\ ~AllKeyed)
    => (~ReaderReturned /\ ~ExportStarted)

\* C3 amended: the run aborts with a lookup failure at a block, the export
\* never starting, exactly when the increment is non-zero, the block's frame
\* counter is a multiple of it, and the block lacks latitude, or has
\* latitude 0.0 and lacks longitude, or is not a (0.0, 0.0) block and lacks
\* any of the four keys.  A block whose counter is not a multiple of the
\* increment, and a (0.0, 0.0) block that lacks abs_alt or focal_len, is
\* passed over without error.
C3_Thm ==
    Computed =>
      /\ \A j \in DOMAIN parsed :
            LookupFails(read_line_attributes(file[parsed[j][2]]), parsed[j][1])
            <=> (j = Len(parsed) /\ err = "KeyError")
      /\ err = "KeyError" => (pc = "error" /\ ~ExportStarted /\ files = NoFiles)

C3_Witness ==
    /\ pc = "done" /\ ~HasHeader /\ CompleteBlocks
    /\ frame_increment = 2 /\ NumBlocks >= 2
    /\ "abs_alt" \notin DOMAIN AttrsOfBlock(0)
    /\ "latitude" \notin DOMAIN AttrsOfBlock(1)
    /\ FrameNums = {}

-----------------------------------------------------------------------------
(* C4 *)

\* C4 as stated: the increment used as the modulus is strictly positive and
\* equals max(1, floor(seconds * framerate)).
C4_Claim ==
    Computed =>
      /\ frame_increment > 0
      /\ frame_increment =
            Max2(1, Floor(seconds[1] * framerate[1], seconds[2] * framerate[2]))

-----------------------------------------------------------------------------
(* C5 *)

\* C5 as stated: with a non-positive increment the run ends in a fatal
\* error before any output: no sample is emitted, no file is written, and
\* the run does not complete normally.
C5_Claim ==
    (Computed /\ frame_increment <= 0)
    => /\ result = <<>>
       /\ files = NoFiles
       /\ pc # "done"

-----------------------------------------------------------------------------
(* C6 *)

\* C6 as stated: a frame that cannot be decoded is skipped and the export
\* goes on with the next sample: a decode failure never ends the run.
C6_Claim == ~(pc = "error" /\ err = "decode")

-----------------------------------------------------------------------------
(* C7 *)

\* the samples of the blocks 0..n-1 that qualify
QualifyingBelow(n) == { k \in 0..(n - 1) : Qualifies(k) }

\* C7 as stated: whatever line the trailing block is cut at, the reader
\* ends without error and returns the samples of the complete qualifying
\* blocks before it.
C7_Claim ==
    (Computed /\ (CutBeforeAttr \/ CutAtAttr) /\ frame_increment > 0
       /\ \A k \in 0..((IF CutAtAttr THEN NumBlocks - 1 ELSE NumBlocks) - 1) : Keyed(k))
    => /\ ~ReaderFailed
       /\ ReaderReturned =>
            FrameNums = QualifyingBelow(IF CutAtAttr THEN NumBlocks - 1 ELSE NumBlocks)

\* C7 amended: iteration j of the loop reads line 6(j-1)+5 of the log and
\* stops when there is no such line, so get_meta_info terminates on every
\* finite log, after at most one iteration per attribute line on a log
\* without header.  A trailing block cut
\* before its attribute line ends the iteration cleanly and the reader
\* returns the samples of the qualifying blocks before it.  A trailing block
\* cut just after or inside its attribute line is still read as a block:
\* its sample is returned too when it qualifies, and the keys the cut removed
\* are missing keys like any other.
C7_Thm ==
    /\ pos <= Len(file)
    /\ count <= Len(parsed)
    /\ \A j \in DOMAIN parsed :
          parsed[j][2] = 6 * (j - 1) + 5 /\ parsed[j][2] <= Len(file)
    /\ (Computed /\ ~HasHeader)
       => /\ count <= NumBlocks
          /\ Len(parsed) <= NumBlocks
          /\ ReaderReturned => (count = NumBlocks /\ pos = Len(file))
          /\ (CutBeforeAttr /\ AllKeyed /\ frame_increment > 0)
             => /\ ~ReaderFailed
                /\ ReaderReturned => FrameNums = QualifyingBelow(NumBlocks)
          /\ (CutAtAttr /\ AllKeyed /\ frame_increment > 0)
             => /\ ~ReaderFailed
                /\ ReaderReturned =>
                     /\ FrameNums = QualifyingBelow(NumBlocks)
                     /\ Qualifies(NumBlocks - 1) => FromItsBlock(Len(result))

C7_Witness ==
    /\ pc = "done" /\ CutAtAttr /\ AllKeyed
    /\ frame_increment = 1 /\ NumBlocks >= 2
    /\ (NumBlocks - 1) \in FrameNums

-----------------------------------------------------------------------------
(* C8 *)

SampleOf(n) == CHOOSE s \in { result[j] : j \in DOMAIN result } : s.frame_num = n

TaggedFiles == { n \in DOMAIN files : files[n].state = "tagged" }

\* C8: in every exported file the references follow a strict > 0 test on
\* the signed values: 'N' iff latitude > 0 else 'S', 'E' iff longitude > 0
\* else 'W', above sea level iff abs_alt > 0 else below, and the stored
\* altitude is |abs_alt|; exactly 0 gives 'S', 'W' and below sea level.
C8_Thm ==
    \A n \in TaggedFiles :
        LET s == SampleOf(n)
            e == files[n].exif[1]
        IN  /\ e.gps_latitude_ref \in {"N", "S"}
            /\ e.gps_latitude_ref = "N" <=> s.lat > 0
            /\ e.gps_longitude_ref \in {"E", "W"}
            /\ e.gps_longitude_ref = "E" <=> s.long > 0
            /\ e.gps_altitude_ref \in {"ABOVE_SEA_LEVEL", "BELOW_SEA_LEVEL"}
            /\ e.gps_altitude_ref = "ABOVE_SEA_LEVEL" <=> s.abs_alt > 0
            /\ e.gps_altitude >= 0
            /\ e.gps_altitude \in {s.abs_alt, -s.abs_alt}
            /\ s.lat = 0 => e.gps_latitude_ref = "S"
            /\ s.long = 0 => e.gps_longitude_ref = "W"
            /\ s.abs_alt = 0 => e.gps_altitude_ref = "BELOW_SEA_LEVEL"

C8_Witness ==
    /\ \E n \in TaggedFiles :
          /\ SampleOf(n).lat = 0 /\ SampleOf(n).long # 0 /\ SampleOf(n).abs_alt = 0
          /\ files[n].exif[1].gps_latitude_ref = "S"
    /\ \E n \in TaggedFiles :
          /\ SampleOf(n).long = 0 /\ SampleOf(n).lat # 0 /\ SampleOf(n).abs_alt < 0
          /\ files[n].exif[1].gps_longitude_ref = "W"

-----------------------------------------------------------------------------
(* C9 *)

\* C9: for every decimal d the conversion returns (deg, min, sec) of |d|:
\* deg*3600 + min*60 + sec = |d|*3600, 0 <= min < 60, 0 <= sec < 60,
\* deg >= 0; d and -d give the same triple; the call is always possible.
\* (sec and the sum are in units of 1/Scale second.)
C9_Thm ==
    /\ (pc = "convert" /\ dms = <<>>) => ENABLED Convert
    /\ dms # <<>> =>
         LET r == dms[1]
         IN  /\ r[1] * 3600 * Scale + r[2] * 60 * Scale + r[3] = Abs(d) * 3600
             /\ 0 <= r[2] /\ r[2] < 60
             /\ 0 <= r[3] /\ r[3] < 60 * Scale
             /\ r[1] >= 0
             /\ r = decimal_degrees_to_minutes_seconds(-d)

C9_Witness ==
    /\ dms # <<>> /\ d < 0
    /\ dms[1][1] >= 1 /\ dms[1][2] >= 1 /\ dms[1][3] >= 1

-----------------------------------------------------------------------------
(* C10 *)

FileState(j) ==
    LET n == result[j].frame_num
    IN  IF n \in DOMAIN files THEN files[n].state ELSE "absent"

Geotagged(j) ==
    /\ FileState(j) = "tagged"
    /\ files[result[j].frame_num].exif = << ExifOf(result[j]) >>

\* the states the file of the sample being exported can be in
CurrentFileStates ==
    CASE pc \in {"decode", "save"} -> {"absent"}
      [] pc \in {"exif", "rewrite"} -> {"plain"}
      [] pc = "error" /\ err = "decode" -> {"absent"}
      [] pc = "error" /\ err = "save" -> {"absent", "partial"}
      [] pc = "error" /\ err = "exif" -> {"plain"}
      [] pc = "error" /\ err = "rewrite" -> {"plain", "partial"}
      [] OTHER -> {}

\* C10: from an empty directory the samples are exported in sequence order,
\* each file going absent -> written without metadata -> rewritten with
\* metadata: every sample before the current one has its geotagged file,
\* every sample after it has none, only the current sample's file can be
\* un-geotagged or partial, a failing step leaves the directory in that
\* state, and on completion every sample has its geotagged file.
C10_Thm ==
    /\ ~ExportStarted => files = NoFiles
    /\ ExportStarted =>
         /\ ReaderReturned
         /\ cur <= Len(result) + 1
         /\ DOMAIN files \subseteq FrameNums
         /\ \A j \in DOMAIN result :
               /\ j < cur => Geotagged(j)
               /\ j > cur => FileState(j) = "absent"
               /\ j = cur => FileState(j) \in CurrentFileStates
         /\ pc = "done" <=> (cur = Len(result) + 1 /\ pc # "decode")
         /\ pc = "done" => \A j \in DOMAIN result : Geotagged(j)

C10_Witness ==
    /\ pc = "error" /\ err = "rewrite"
    /\ cur = 2 /\ Len(result) >= 2
    /\ Geotagged(1) /\ FileState(2) = "partial"

====
